---- MODULE Spec2Model ----
(***************************************************************************)
(* The file action framework of Chonky as the documentation pages of this  *)
(* repository describe it: a registry of file action definitions, and the  *)
(* part of the file browser state a triggered action changes (sort action  *)
(* and order, file view configuration, boolean options, file selection),   *)
(* followed by the call of the user-defined file action handler.           *)
(***************************************************************************)
EXTENDS Integers, Sequences, FiniteSets, TLC

VARIABLES
    fileActions,   \* the registry built at mount (a sequence of definitions)
    state,         \* the state the file actions change
    pc,            \* "idle", or "handler" while the handler is still to be called
    last,          \* the trigger being, or last, processed
    prev,          \* the state the last trigger was applied to
    repeated,      \* whether the trigger before the last one had the same identifier
    handled,       \* what the file action handler was called with for the last trigger
    activations    \* how often each option's action was activated (capped)

vars == <<fileActions, state, pc, last, prev, repeated, handled, activations>>

-----------------------------------------------------------------------------
(* Bounds of the model *)

\* activations are counted up to this number
CountCap == 2
\* payloads of programmatic triggers are 1..MaxPayload; 0 is "no payload"
MaxPayload == 1

NoPayload == 0
Payloads == 0..MaxPayload

-----------------------------------------------------------------------------
(* Files *)

\* an identifier no file supplied to the file browser has
StaleId == "old"

files == { [id |-> "zxc", isHidden |-> FALSE],
           [id |-> "bcv", isHidden |-> TRUE] }

fileIds == { f.id : f \in files }

fileMap == [ i \in fileIds |-> CHOOSE f \in files : f.id = i ]

-----------------------------------------------------------------------------
(* File action definitions: id is the only required field *)

NoSelector == "none"
NoTransform == "none"
NoFilter == "none"
NoViewConfig == [mode |-> "none", entryWidth |-> 0, entryHeight |-> 0]
NoOption == [defined |-> FALSE, id |-> "", defaultValue |-> FALSE]

FileActionOption(id, defaultValue) ==
    [defined |-> TRUE, id |-> id, defaultValue |-> defaultValue]

defineFileAction(id) ==
    [ id |-> id,
      button |-> FALSE,
      hotkeys |-> FALSE,
      payloadType |-> FALSE,
      requiresSelection |-> FALSE,
      fileFilter |-> NoFilter,
      sortKeySelector |-> NoSelector,
      fileViewConfig |-> NoViewConfig,
      option |-> NoOption,
      selectionTransform |-> NoTransform ]

SortFilesBySize ==
    [defineFileAction("sort_files_by_size") EXCEPT
        !.sortKeySelector = "size", !.button = TRUE]

OpenFiles ==
    [defineFileAction("open_files") EXCEPT !.payloadType = TRUE]

executeOrder66 ==
    [defineFileAction("execute_order_66") EXCEPT
        !.hotkeys = TRUE, !.button = TRUE]

deleteHiddenFiles ==
    [defineFileAction("delete_hidden_files") EXCEPT
        !.requiresSelection = TRUE, !.fileFilter = "isHidden",
        !.hotkeys = TRUE, !.button = TRUE]

useGiantThumbnails ==
    [defineFileAction("use_giant_thumbnails") EXCEPT
        !.button = TRUE,
        !.fileViewConfig = [mode |-> "grid", entryWidth |-> 300, entryHeight |-> 300]]

useTinyThumbnails ==
    [defineFileAction("use_tiny_thumbnails") EXCEPT
        !.button = TRUE,
        !.fileViewConfig = [mode |-> "grid", entryWidth |-> 100, entryHeight |-> 100]]

selectRandomFiles ==
    [defineFileAction("select_random_files") EXCEPT
        !.button = TRUE, !.selectionTransform = "random"]


\* built-in actions the pages mention without showing their definitions
SelectAllFiles ==
    [defineFileAction("select_all_files") EXCEPT
        !.hotkeys = TRUE, !.button = TRUE, !.selectionTransform = "all"]

ClearSelection ==
    [defineFileAction("clear_selection") EXCEPT
        !.hotkeys = TRUE, !.button = TRUE, !.selectionTransform = "clear"]

ToggleHiddenFiles ==
    [defineFileAction("toggle_hidden_files") EXCEPT
        !.hotkeys = TRUE, !.button = TRUE,
        !.option = FileActionOption("show_hidden", FALSE)]

\* custom actions a user may define with the fields the page walks through
myCustomAction == defineFileAction("my_custom_action")

mySortAction ==
    [defineFileAction("sort_by_name") EXCEPT
        !.sortKeySelector = "name", !.button = TRUE]

mySizeAction ==
    [defineFileAction("sort_files_by_size") EXCEPT
        !.sortKeySelector = "sizeOnDisk", !.hotkeys = TRUE]

myCompoundAction ==
    [defineFileAction("my_compound_action") EXCEPT
        !.button = TRUE,
        !.sortKeySelector = "date",
        !.fileViewConfig = [mode |-> "list", entryWidth |-> 0, entryHeight |-> 50],
        !.option = FileActionOption("dark_mode", TRUE),
        !.selectionTransform = "all"]

myOptionAction ==
    [defineFileAction("my_option_action") EXCEPT
        !.hotkeys = TRUE, !.option = FileActionOption("folders_first", TRUE)]

myFilterAction ==
    [defineFileAction("my_filter_action") EXCEPT
        !.button = TRUE, !.fileFilter = "isHidden"]

keepSelection ==
    [defineFileAction("keep_selection") EXCEPT
        !.button = TRUE, !.selectionTransform = "keep"]

selectOldFile ==
    [defineFileAction("select_old_file") EXCEPT
        !.button = TRUE, !.selectionTransform = "old"]

\* an identifier no action of any registry has
UnknownActionId == "no_such_action"

-----------------------------------------------------------------------------
(* The registry *)

DefaultFileActions ==
    <<SortFilesBySize, OpenFiles, SelectAllFiles, ClearSelection, ToggleHiddenFiles>>

\* the fileActions and disableDefaultFileActions a FileBrowser is mounted with
Mounts ==
    { [fileActions |-> <<executeOrder66, deleteHiddenFiles>>,
       disableDefaultFileActions |-> TRUE],
      [fileActions |-> <<useGiantThumbnails, useTinyThumbnails, selectRandomFiles>>,
       disableDefaultFileActions |-> TRUE],
      [fileActions |-> <<executeOrder66, deleteHiddenFiles>>,
       disableDefaultFileActions |-> FALSE],
      [fileActions |-> <<mySizeAction, mySortAction, keepSelection, selectOldFile,
                         myFilterAction>>,
       disableDefaultFileActions |-> FALSE],
      [fileActions |-> <<myCompoundAction, mySortAction, myOptionAction,
                         myCustomAction>>,
       disableDefaultFileActions |-> TRUE] }

Range(seq) == { seq[i] : i \in DOMAIN seq }

ActionIds(reg) == { a.id : a \in Range(reg) }

HasAction(reg, id) == id \in ActionIds(reg)

GetAction(reg, id) == CHOOSE a \in Range(reg) : a.id = id

PutActionKeepFirst(reg, a) ==
    IF HasAction(reg, a.id) THEN reg ELSE Append(reg, a)

\* add one definition: it replaces the definition of the same id, in place
PutAction(reg, a) ==
    IF HasAction(reg, a.id)
    THEN [i \in DOMAIN reg |-> IF reg[i].id = a.id THEN a ELSE reg[i]]
    ELSE Append(reg, a)

RECURSIVE PutAll(_, _)
PutAll(reg, actions) ==
    IF actions = <<>> THEN reg
    ELSE PutAll(PutAction(reg, Head(actions)), Tail(actions))

BuildRegistry(userActions, disableDefaultFileActions) ==
    PutAll(IF disableDefaultFileActions THEN <<>> ELSE DefaultFileActions,
           userActions)

OptionActions(reg) == { a \in Range(reg) : a.option.defined }

OptionIds(reg) == { a.option.id : a \in OptionActions(reg) }

DefaultValue(reg, optionId) ==
    (CHOOSE a \in OptionActions(reg) : a.option.id = optionId).option.defaultValue

-----------------------------------------------------------------------------
(* The state file actions change *)

NoSortAction == ""

InitialViewConfig == [mode |-> "list", entryWidth |-> 0, entryHeight |-> 30]

InitialStateNoOptions(reg) ==
    [ sortActionId |-> NoSortAction,
      sortOrder |-> "asc",
      fileViewConfig |-> InitialViewConfig,
      options |-> [ o \in {} |-> FALSE ],
      selection |-> {} ]

\* the state on initial component mount
InitialState(reg) ==
    [ sortActionId |-> NoSortAction,
      sortOrder |-> "asc",
      fileViewConfig |-> InitialViewConfig,
      options |-> [ o \in OptionIds(reg) |-> DefaultValue(reg, o) ],
      selection |-> {} ]

-----------------------------------------------------------------------------
(* The four parts of the state an action can change *)

ToggleOrderStuck(order) == "asc"

ToggleOrder(order) == IF order = "asc" THEN "desc" ELSE "asc"

ApplySortPerAction(s, a) ==
    IF a.sortKeySelector = NoSelector THEN s
    ELSE IF s.sortActionId # a.id
         THEN [s EXCEPT !.sortActionId = a.id]
         ELSE [s EXCEPT !.sortOrder = ToggleOrder(s.sortOrder)]

\* action.sortKeySelector
ApplySort(s, a) ==
    IF a.sortKeySelector = NoSelector THEN s
    ELSE IF s.sortActionId # a.id
         THEN [s EXCEPT !.sortActionId = a.id, !.sortOrder = "asc"]
         ELSE [s EXCEPT !.sortOrder = ToggleOrder(s.sortOrder)]

ApplyFileViewConfigReset(s, a) ==
    IF a.fileViewConfig = NoViewConfig
    THEN [s EXCEPT !.fileViewConfig = InitialViewConfig]
    ELSE [s EXCEPT !.fileViewConfig = a.fileViewConfig]

\* action.fileViewConfig
ApplyFileViewConfig(s, a) ==
    IF a.fileViewConfig = NoViewConfig THEN s
    ELSE [s EXCEPT !.fileViewConfig = a.fileViewConfig]

ApplyOptionEnable(s, a) ==
    IF ~a.option.defined THEN s
    ELSE [s EXCEPT !.options =
             [ o \in DOMAIN s.options \cup {a.option.id} |->
                 IF o = a.option.id THEN TRUE ELSE s.options[o] ]]

ApplyOptionFromDefault(s, a) ==
    IF ~a.option.defined THEN s
    ELSE [s EXCEPT !.options =
             [ o \in DOMAIN s.options \cup {a.option.id} |->
                 IF o = a.option.id THEN ~a.option.defaultValue ELSE s.options[o] ]]

\* action.option
ApplyOption(s, a) ==
    IF ~a.option.defined THEN s
    ELSE LET id  == a.option.id
             old == s.options
             cur == IF id \in DOMAIN old THEN old[id] ELSE a.option.defaultValue
         IN  [s EXCEPT !.options =
                 [ o \in DOMAIN old \cup {id} |-> IF o = id THEN ~cur ELSE old[o] ]]

\* the data a selection transform is called with
TransformData(s, hiddenFileIds) ==
    [ prevSelection |-> s.selection,
      fileIds |-> fileIds,
      fileMap |-> fileMap,
      hiddenFileIds |-> hiddenFileIds ]

Unchanged == [isNull |-> TRUE, selection |-> {}]
NewSelection(sel) == [isNull |-> FALSE, selection |-> sel]

SelectionTransformUnstable(name, data) ==
    CASE name = "all"    -> { NewSelection(data.fileIds \ data.hiddenFileIds),
                              NewSelection(data.fileIds) }
      [] name = "clear"  -> { NewSelection({}) }
      [] name = "random" -> { NewSelection(sel) :
                                sel \in SUBSET (data.fileIds \ data.hiddenFileIds) }
      [] name = "keep"   -> { Unchanged }
      [] name = "old"    -> { NewSelection({StaleId}) }
      [] OTHER           -> { Unchanged }

\* what a selection transform may return for the data: null or a new selection
SelectionTransform(name, data) ==
    CASE name = "all"    -> { NewSelection(data.fileIds \ data.hiddenFileIds) }
      [] name = "clear"  -> { NewSelection({}) }
      [] name = "random" -> { NewSelection(sel) :
                                sel \in SUBSET (data.fileIds \ data.hiddenFileIds) }
      [] name = "keep"   -> { Unchanged }
      [] name = "old"    -> { NewSelection({StaleId}) }
      [] OTHER           -> { Unchanged }

ApplySelectionNullClears(s, a, result) ==
    IF a.selectionTransform = NoTransform THEN s
    ELSE [s EXCEPT !.selection = result.selection]

\* action.selectionTransform, for the result the transform returned
ApplySelection(s, a, result) ==
    IF a.selectionTransform = NoTransform THEN s
    ELSE IF result.isNull THEN s
         ELSE [s EXCEPT !.selection = result.selection]

ApplyActionFirstOnly(s, a, result) ==
    IF a.sortKeySelector # NoSelector THEN ApplySort(s, a)
    ELSE IF a.fileViewConfig # NoViewConfig THEN ApplyFileViewConfig(s, a)
    ELSE IF a.option.defined THEN ApplyOption(s, a)
    ELSE ApplySelection(s, a, result)

\* sorting, changing file view, options, updating selection: all that the
\* action defines
ApplyAction(s, a, result) ==
    ApplySelection(
        ApplyOption(ApplyFileViewConfig(ApplySort(s, a), a), a), a, result)

ApplyUnknownResets(s, reg, actionId, result) ==
    IF ~HasAction(reg, actionId) THEN InitialState(reg)
    ELSE ApplyAction(s, GetAction(reg, actionId), result)

\* the state after the action of this id has been processed
Apply(s, reg, actionId, result) ==
    IF ~HasAction(reg, actionId) THEN s
    ELSE ApplyAction(s, GetAction(reg, actionId), result)

-----------------------------------------------------------------------------
(* action.requiresSelection and action.fileFilter *)

FileFilter(name, file) ==
    IF name = "isHidden" THEN file.isHidden ELSE TRUE

\* the selected files the action is about
SelectedFilesForAction(a, selection) ==
    { i \in selection \cap fileIds :
        a.fileFilter = NoFilter \/ FileFilter(a.fileFilter, fileMap[i]) }

DisabledIgnoringFilter(a, selection) ==
    a.requiresSelection /\ selection = {}

Disabled(a, selection) ==
    a.requiresSelection /\ SelectedFilesForAction(a, selection) = {}

-----------------------------------------------------------------------------
(* Triggers *)

\* the sets of files that may be invisible when an action is triggered
HiddenFileIds == { {}, { f.id : f \in { g \in files : g.isHidden } } }

NoCall ==
    [ called |-> FALSE, prevSelection |-> {}, fileIds |-> {},
      hiddenFileIds |-> {}, withFileMap |-> FALSE, result |-> Unchanged ]

TransformCall(data, result) ==
    [ called |-> TRUE, prevSelection |-> data.prevSelection,
      fileIds |-> data.fileIds, hiddenFileIds |-> data.hiddenFileIds,
      withFileMap |-> data.fileMap = fileMap, result |-> result ]

NoTrigger == [id |-> "", payload |-> NoPayload, source |-> "none", call |-> NoCall]

\* activations are counted exactly up to CountCap; CountCap + 1 stands for more
Saturate(n) == IF n <= CountCap THEN n + 1 ELSE n

Activated(reg, actionId, counts) ==
    IF HasAction(reg, actionId) /\ GetAction(reg, actionId).option.defined
    THEN [counts EXCEPT ![GetAction(reg, actionId).option.id] = Saturate(@)]
    ELSE counts

\* the handler has not been called for the trigger being processed
NotCalled(s) == [called |-> FALSE, id |-> "", payload |-> NoPayload, state |-> s]

FileActionDataEarly(trigger, before, after) ==
    [called |-> TRUE, id |-> trigger.id, payload |-> NoPayload, state |-> before]

\* what the user-defined handler is called with
FileActionData(trigger, before, after) ==
    [called |-> TRUE, id |-> trigger.id, payload |-> trigger.payload, state |-> after]

\* the internal processing of one trigger, up to the call of the handler
Process(actionId, payload, source) ==
    LET known  == HasAction(fileActions, actionId)
        called == known /\ GetAction(fileActions, actionId).selectionTransform # NoTransform
    IN  \E hiddenFileIds \in IF called THEN HiddenFileIds ELSE { {} } :
          LET data == TransformData(state, hiddenFileIds)
          IN  \E result \in IF called
                            THEN SelectionTransform(
                                   GetAction(fileActions, actionId).selectionTransform, data)
                            ELSE { Unchanged } :
                /\ state' = Apply(state, fileActions, actionId, result)
                /\ prev' = state
                /\ repeated' = (last.id = actionId)
                /\ last' = [ id |-> actionId, payload |-> payload, source |-> source,
                             call |-> IF called THEN TransformCall(data, result)
                                      ELSE NoCall ]
                /\ activations' = Activated(fileActions, actionId, activations)
                /\ handled' = NotCalled(state)
                /\ pc' = "handler"
                /\ UNCHANGED fileActions

\* a toolbar or context menu button, or a hotkey: no payload
TriggerFromUI ==
    /\ pc = "idle"
    /\ \E a \in Range(fileActions) :
          /\ a.button \/ a.hotkeys
          /\ ~Disabled(a, state.selection)
          /\ Process(a.id, NoPayload, "ui")

\* a programmatic trigger: any identifier, any payload
requestFileAction ==
    /\ pc = "idle"
    /\ \E actionId \in ActionIds(fileActions) \cup {UnknownActionId},
          payload \in Payloads :
          Process(actionId, payload, "program")

\* when the internal processing is finished, the handler is called
onFileAction ==
    /\ pc = "handler"
    /\ handled' = FileActionData(last, prev, state)
    /\ pc' = "idle"
    /\ UNCHANGED <<fileActions, state, last, prev, repeated, activations>>

Init ==
    /\ \E m \in Mounts :
          fileActions = BuildRegistry(m.fileActions, m.disableDefaultFileActions)
    /\ state = InitialState(fileActions)
    /\ pc = "idle"
    /\ last = NoTrigger
    /\ prev = state
    /\ repeated = FALSE
    /\ handled = NotCalled(state)
    /\ activations = [ o \in OptionIds(fileActions) |-> 0 ]

Next == TriggerFromUI \/ requestFileAction \/ onFileAction

Spec == Init /\ [][Next]_vars

-----------------------------------------------------------------------------
(* Helpers of the properties *)

Triggered == last.id # ""

Known == HasAction(fileActions, last.id)

LastAction == GetAction(fileActions, last.id)

SortActions == { a \in Range(fileActions) : a.sortKeySelector # NoSelector }

\* every result the action's selection transform may return in state s
Results(s, a) ==
    IF a.selectionTransform = NoTransform THEN { Unchanged }
    ELSE UNION { SelectionTransform(a.selectionTransform, TransformData(s, h)) :
                   h \in HiddenFileIds }

\* every state a trigger of the action may lead to from state s
Outcomes(s, a) == { Apply(s, fileActions, a.id, r) : r \in Results(s, a) }

Orders == {"asc", "desc"}

-----------------------------------------------------------------------------
(* C1: triggering a sort action twice in a row keeps it the active sort
   action and gives the order opposite to the one after the first trigger;
   from a state with no active sort the first trigger gives ascending order
   and the second descending order. *)
C1_SortTwiceToggles ==
    /\ \A a \in SortActions :
         \A s1 \in Outcomes(state, a) :
           \A s2 \in Outcomes(s1, a) :
             /\ s1.sortActionId = a.id /\ s2.sortActionId = a.id
             /\ s1.sortOrder \in Orders /\ s2.sortOrder \in Orders
             /\ s2.sortOrder # s1.sortOrder
             /\ state.sortActionId = NoSortAction =>
                  s1.sortOrder = "asc" /\ s2.sortOrder = "desc"
    /\ (Triggered /\ Known /\ LastAction \in SortActions) =>
         /\ state.sortActionId = last.id
         /\ prev.sortActionId = NoSortAction => state.sortOrder = "asc"
         /\ repeated =>
              /\ prev.sortActionId = last.id
              /\ state.sortOrder \in Orders \ {prev.sortOrder}

C1_Witness ==
    /\ pc = "idle" /\ Known /\ LastAction \in SortActions /\ repeated
    /\ prev.sortOrder = "asc" /\ state.sortOrder = "desc"

(* C2: triggering a sort action that is not the active sort action makes it
   the active one in ascending order, whatever the order was and however often
   that action was triggered before. *)
C2_OtherSortAscending ==
    (Triggered /\ Known /\ LastAction \in SortActions
       /\ prev.sortActionId # last.id) =>
         state.sortActionId = last.id /\ state.sortOrder = "asc"

C2_Witness ==
    /\ pc = "idle" /\ Known /\ LastAction \in SortActions
    /\ prev.sortActionId \notin {NoSortAction, last.id}
    /\ prev.sortOrder = "desc"
    /\ state.sortOrder = "asc"

(* C3: the first trigger of an option's action after mount leaves the flag at
   the negation of its defaultValue, the second at its defaultValue. *)
C3_FirstActivationNegatesDefault ==
    \A a \in OptionActions(fileActions) :
       LET o == a.option.id
       IN  /\ o \in DOMAIN state.options
           /\ activations[o] = 1 => state.options[o] = ~a.option.defaultValue
           /\ activations[o] = 2 => state.options[o] = a.option.defaultValue

C3_Witness ==
    /\ pc = "idle" /\ Known /\ LastAction.option.defined
    /\ activations[LastAction.option.id] = 2
    /\ state.options[LastAction.option.id] = LastAction.option.defaultValue

(* C4: once the flag of an option is initialized, every trigger of its action
   negates it, and two triggers in a row return it to its value. *)
C4_OptionToggleTwice ==
    /\ \A a \in OptionActions(fileActions) :
         a.option.id \in DOMAIN state.options =>
           \A s1 \in Outcomes(state, a) :
             /\ s1.options[a.option.id] = ~state.options[a.option.id]
             /\ \A s2 \in Outcomes(s1, a) :
                  s2.options[a.option.id] = state.options[a.option.id]
    /\ (Triggered /\ Known /\ LastAction.option.defined
          /\ LastAction.option.id \in DOMAIN prev.options) =>
         state.options[LastAction.option.id] = ~prev.options[LastAction.option.id]

C4_Witness ==
    /\ pc = "idle" /\ Known /\ LastAction.option.defined /\ repeated
    /\ activations[LastAction.option.id] > CountCap

(* C5: a trigger of an identifier that is not in the registry leaves every
   field of the state as it was. *)
C5_UnknownActionNoOp ==
    /\ \A r \in {Unchanged, NewSelection({})} :
         Apply(state, fileActions, UnknownActionId, r) = state
    /\ (Triggered /\ ~Known) => state = prev

C5_Witness ==
    /\ pc = "idle" /\ Triggered /\ ~Known
    /\ prev.sortActionId # NoSortAction
    /\ prev.selection # {}

(* C6: the selection transform of the triggered action is called with the
   previous selection, the file ids, the file map and the hidden file ids; the
   selection afterwards is the set it returned, or the previous selection if
   it returned null. *)
C6_SelectionTransformResult ==
    /\ (Triggered /\ Known) =>
         last.call.called = (LastAction.selectionTransform # NoTransform)
    /\ last.call.called =>
         /\ last.call.prevSelection = prev.selection
         /\ last.call.fileIds = fileIds
         /\ last.call.withFileMap
         /\ last.call.hiddenFileIds \in HiddenFileIds
         /\ last.call.result \in
              SelectionTransform(LastAction.selectionTransform,
                  [ prevSelection |-> prev.selection, fileIds |-> fileIds,
                    fileMap |-> fileMap,
                    hiddenFileIds |-> last.call.hiddenFileIds ])
         /\ last.call.result.isNull => state.selection = prev.selection
         /\ ~last.call.result.isNull => state.selection = last.call.result.selection

C6_Witness ==
    /\ pc = "idle" /\ last.call.called /\ last.call.result.isNull
    /\ prev.selection # {}
    /\ state.selection = prev.selection

(* C7: the selection is a subset of the file ids in every reachable state. *)
C7_SelectionWithinFiles ==
    state.selection \subseteq fileIds

(* C8: every option id an action of the registry declares is a key of the
   options; right after mount its value is the declared defaultValue; no
   trigger removes a key. *)
C8_OptionsPresent ==
    /\ OptionIds(fileActions) \subseteq DOMAIN state.options
    /\ DOMAIN prev.options \subseteq DOMAIN state.options
    /\ ~Triggered =>
         \A a \in OptionActions(fileActions) :
            state.options[a.option.id] = a.option.defaultValue

C8_Witness ==
    /\ pc = "idle" /\ Known /\ ~LastAction.option.defined
    /\ Cardinality(OptionIds(fileActions)) = 2
    /\ \A o \in OptionIds(fileActions) : activations[o] > 0

(* C9 as stated: an action is disabled whenever it requires a selection and
   the selection is empty, and whenever it has a fileFilter and no selected
   file satisfies the filter. *)
NoSelectedFileFor(a) ==
    ~ \E i \in state.selection \cap fileIds : FileFilter(a.fileFilter, fileMap[i])

C9_DisabledAsStated ==
    \A a \in Range(fileActions) :
       /\ (a.requiresSelection /\ state.selection = {}) =>
            Disabled(a, state.selection)
       /\ (a.fileFilter # NoFilter /\ NoSelectedFileFor(a)) =>
            Disabled(a, state.selection)

(* C9 amended: an action that requires a selection is disabled whenever the
   selection is empty and whenever it has a fileFilter and no selected file
   satisfies the filter; it is not triggered from a button or a hotkey while
   it is disabled, so one with a filter for hidden files is triggered only
   once a hidden file is selected. *)
C9_DisabledWhenSelectionRequired ==
    /\ \A a \in Range(fileActions) :
         a.requiresSelection =>
           /\ state.selection = {} => Disabled(a, state.selection)
           /\ (a.fileFilter # NoFilter /\ NoSelectedFileFor(a)) =>
                Disabled(a, state.selection)
    /\ (last.source = "ui" /\ LastAction.requiresSelection) =>
         /\ prev.selection # {}
         /\ LastAction.fileFilter = "isHidden" =>
              \E i \in prev.selection \cap fileIds : fileMap[i].isHidden

C9_Witness ==
    /\ pc = "idle" /\ last.source = "ui"
    /\ LastAction.requiresSelection /\ LastAction.fileFilter = "isHidden"

(* C10: the handler is called only after the processing of the trigger has
   changed the state, with the id of the triggered action and the payload of
   the trigger; it sees the state after the change. *)
C10_HandlerAfterProcessing ==
    /\ pc = "handler" => ~handled.called
    /\ handled.called =>
         /\ pc = "idle"
         /\ handled.id = last.id
         /\ handled.payload = last.payload
         /\ handled.state = state
         /\ handled.state = Apply(prev, fileActions, last.id, last.call.result)

C10_Witness ==
    /\ handled.called /\ handled.payload # NoPayload
    /\ handled.state # prev

(* C11: the registry built at mount has unique identifiers; for an
   identifier both a built-in and a user-supplied action define it holds the
   user-supplied definition and only that one; no trigger changes it. *)
DefaultsOf(m) ==
    IF m.disableDefaultFileActions THEN <<>> ELSE DefaultFileActions

C11_RegistryOf(m) ==
    /\ ActionIds(fileActions) = ActionIds(DefaultsOf(m)) \cup ActionIds(m.fileActions)
    /\ \A u \in Range(m.fileActions) : u \in Range(fileActions)
    /\ \A d \in Range(DefaultsOf(m)) :
         IF d.id \in ActionIds(m.fileActions)
         THEN d \in Range(m.fileActions) \/ d \notin Range(fileActions)
         ELSE d \in Range(fileActions)

C11_UniqueIds ==
    /\ \A i, j \in DOMAIN fileActions :
         fileActions[i].id = fileActions[j].id => i = j
    /\ \E m \in Mounts : C11_RegistryOf(m)

C11_RegistryLastWriteWins ==
    /\ []C11_UniqueIds
    /\ [][fileActions' = fileActions]_vars

C11_Witness ==
    /\ pc = "idle" /\ Known /\ state # prev
    /\ \E d \in Range(DefaultFileActions) :
         /\ d.id = last.id
         /\ LastAction # d
         /\ LastAction = mySizeAction

(* C12 as stated: two runs from equal states with the same registry, action
   identifier, file ids and hidden file ids end in equal states, for every
   registered action. *)
RerunResults ==
    IF last.call.called
    THEN SelectionTransform(LastAction.selectionTransform,
             TransformData(prev, last.call.hiddenFileIds))
    ELSE { Unchanged }

C12_ApplyDeterministic ==
    (Triggered /\ Known) =>
       \A r \in RerunResults : state = Apply(prev, fileActions, last.id, r)

(* C12 amended: the same, for every registered action but one whose selection
   transform draws random numbers (select_random_files). *)
C12_DeterministicUnlessRandom ==
    /\ \A a \in Range(fileActions), h \in HiddenFileIds :
         a.selectionTransform # "random" =>
           Cardinality({ Apply(state, fileActions, a.id, r) :
                           r \in IF a.selectionTransform = NoTransform
                                 THEN { Unchanged }
                                 ELSE SelectionTransform(a.selectionTransform,
                                          TransformData(state, h)) }) = 1
    /\ (Triggered /\ Known /\ LastAction.selectionTransform # "random") =>
         \A r \in RerunResults : state = Apply(prev, fileActions, last.id, r)

C12_Witness ==
    /\ pc = "idle" /\ last.call.called
    /\ LastAction.selectionTransform = "all"
    /\ last.call.hiddenFileIds # {}
    /\ state.selection # prev.selection

(* C13: one trigger of an action applies every effect the action defines in
   one transition: in every state after the trigger, and in the state the
   handler sees, all of them are applied. *)
C13_AllEffectsApplied ==
    /\ (Triggered /\ Known) =>
         LET a == LastAction
         IN  /\ a.sortKeySelector # NoSelector =>
                  /\ state.sortActionId = a.id
                  /\ IF prev.sortActionId = a.id
                     THEN state.sortOrder \in Orders \ {prev.sortOrder}
                     ELSE state.sortOrder = "asc"
             /\ a.fileViewConfig # NoViewConfig =>
                  state.fileViewConfig = a.fileViewConfig
             /\ a.option.defined =>
                  state.options[a.option.id] = ~prev.options[a.option.id]
             /\ a.selectionTransform # NoTransform =>
                  /\ last.call.called
                  /\ state.selection = IF last.call.result.isNull
                                       THEN prev.selection
                                       ELSE last.call.result.selection
    /\ handled.called => handled.state = state

C13_Witness ==
    /\ handled.called /\ Known
    /\ LastAction.sortKeySelector # NoSelector
    /\ LastAction.fileViewConfig # NoViewConfig
    /\ LastAction.option.defined
    /\ LastAction.selectionTransform # NoTransform
    /\ prev.sortActionId # last.id
    /\ prev.fileViewConfig # state.fileViewConfig
    /\ prev.selection # state.selection

(* C14: a trigger changes only the parts of the state whose field the action
   defines; an option action changes only its own flag; an action that
   defines none of the four leaves the whole state unchanged. *)
C14_OnlyDefinedPartsChange ==
    (Triggered /\ Known) =>
       LET a == LastAction
       IN  /\ a.sortKeySelector = NoSelector =>
                /\ state.sortActionId = prev.sortActionId
                /\ state.sortOrder = prev.sortOrder
           /\ a.fileViewConfig = NoViewConfig =>
                state.fileViewConfig = prev.fileViewConfig
           /\ ~a.option.defined => state.options = prev.options
           /\ a.option.defined =>
                /\ DOMAIN state.options = DOMAIN prev.options
                /\ \A o \in DOMAIN prev.options \ {a.option.id} :
                     state.options[o] = prev.options[o]
           /\ a.selectionTransform = NoTransform =>
                state.selection = prev.selection
           /\ ( /\ a.sortKeySelector = NoSelector
                /\ a.fileViewConfig = NoViewConfig
                /\ ~a.option.defined
                /\ a.selectionTransform = NoTransform ) => state = prev

C14_Witness ==
    /\ pc = "idle" /\ last.id = "my_custom_action"
    /\ prev.sortActionId # NoSortAction
    /\ prev.fileViewConfig # InitialViewConfig
    /\ prev.selection # {}
    /\ \E o \in DOMAIN prev.options : prev.options[o] # DefaultValue(fileActions, o)

====
